---- MODULE Spec2Model ----
(***************************************************************************)
(* State-machine model of the session-connection layer.                    *)
(*                                                                         *)
(*   SessionConnection  (constructor, model, clone, update, dispose,       *)
(*                       setPath/setName/setType, changeKernel, shutdown,  *)
(*                       setupKernel, _patch, _handleModelChange)          *)
(*   Private            (connectTo, createSession, startNew,               *)
(*                       updateFromServer, updateRunningSessions)          *)
(*   restapi            (updateSession, startSession, shutdownSession)     *)
(*                                                                         *)
(* JavaScript is single threaded: every action below is one run-to-        *)
(* completion step, and an async method is split at its await on the       *)
(* network.  A thrown TypeError (a property read on a null kernel) aborts  *)
(* the running handler at that point; the assignments made before it stay. *)
(***************************************************************************)
EXTENDS Integers, Sequences, FiniteSets, TLC

(***************************************************************************)
(* Bounds of the model.                                                    *)
(***************************************************************************)
MaxConns == 2        \* SessionConnection instances that can exist
MaxPatches == 2      \* PATCH requests one connection has outstanding
MaxDisposals == 2    \* dispose() calls counted on one kernel handle
MaxList == 2         \* length of a session list handed to reconciliation
MaxStarts == 1       \* startSession requests outstanding per endpoint

Slots == 1..MaxConns

(***************************************************************************)
(* Value domains: session ids, endpoints (serverSettings.baseUrl), field   *)
(* values and kernel models ({id, name}).  A null kernel model and a null  *)
(* kernel handle are records too, so that all values compare.              *)
(***************************************************************************)
Ids == {"s1", "s2"}
Eps == {"A", "B"}
Paths == {"/a", "/b"}
Names == {"", "nb"}
Types == {"", "notebook"}
KernelIds == {"k1", "k2"}

NullModel == [id |-> "null", name |-> ""]
KernelModels == {[id |-> k, name |-> "python3"] : k \in KernelIds}
NullKernel == [id |-> "null", name |-> "", disposals |-> 0]

\* Session.IModel: the validated record the transport returns.
Records ==
  [id : Ids, path : Paths, type : Types, name : Names,
   kernel : KernelModels \cup {NullModel}]

\* The records of the registry specification: sessions differ in their id
\* and in having a kernel.
RegRecords ==
  {r \in Records : /\ r.path = "/a" /\ r.name = "" /\ r.type = "notebook"
                    /\ r.kernel.id # "k2"}

(***************************************************************************)
(* The SessionConnection object.                                           *)
(***************************************************************************)

\* A slot of the instance pool in which no object has been constructed.
NoConn ==
  [live |-> FALSE, id |-> "", ep |-> "", path |-> "", type |-> "", name |-> "",
   kernel |-> NullKernel, isDisposed |-> FALSE, updating |-> FALSE,
   cleared |-> FALSE]

\* A signal emission: kernelChanged, propertyChanged or disposed.
Ev(sig, arg, old, new) ==
  [sig |-> sig, arg |-> arg, oldValue |-> old, newValue |-> new]

\* What a synchronous method leaves behind: the object, the signals it
\* emitted in order, and whether it ended by throwing.
Ret(s, events, thrown) == [conn |-> s, events |-> events, thrown |-> thrown]

\* JavaScript's  v || d  on strings: the empty string is falsy.
OrDefault(v, d) == IF v = "" THEN d ELSE v

\* The injected connector returns a fresh handle for a kernel model;
\* setupKernel stores it, or null for a null model.
setupKernel(s, model) ==
  IF model = NullModel
    THEN [s EXCEPT !.kernel = NullKernel]
    ELSE [s EXCEPT !.kernel =
            [id |-> model.id, name |-> model.name, disposals |-> 0]]

\* Kernel.IKernelConnection.dispose() called on a handle.
KernelDispose(h) == [h EXCEPT !.disposals = @ + 1]

\* new SessionConnection(options, id, model)
Construct(options, id, model) ==
  setupKernel(
    [live |-> TRUE, id |-> id, ep |-> options.ep, path |-> options.path,
     type |-> OrDefault(options.type, "file"),
     name |-> OrDefault(options.name, ""),
     kernel |-> NullKernel, isDisposed |-> FALSE, updating |-> FALSE,
     cleared |-> FALSE],
    model)

\* The getter `model` reads this.kernel.id: a TypeError on a null kernel.
ModelThrows(s) == s.kernel = NullKernel

Model(s) ==
  [id |-> s.id, kernel |-> [id |-> s.kernel.id, name |-> s.kernel.name],
   path |-> s.path, type |-> s.type, name |-> s.name]

\* clone(): reads this.kernel.id as well.
CloneThrows(s) == s.kernel = NullKernel

Clone(s) ==
  Construct([path |-> s.path, name |-> s.name, type |-> s.type, ep |-> s.ep],
            s.id, [id |-> s.kernel.id, name |-> s.kernel.name])

\* _handleModelChange(oldModel): name, then type, then path.
HandleModelChange(oldModel, s) ==
  (IF oldModel.name # s.name
     THEN <<Ev("propertyChanged", "name", NullKernel, NullKernel)>> ELSE <<>>)
  \o (IF oldModel.type # s.type
     THEN <<Ev("propertyChanged", "type", NullKernel, NullKernel)>> ELSE <<>>)
  \o (IF oldModel.path # s.path
     THEN <<Ev("propertyChanged", "path", NullKernel, NullKernel)>> ELSE <<>>)

\* The condition of update() under which the kernel is replaced.
KernelIdentityChanged(kernel, model) ==
  \/ kernel = NullKernel /\ model # NullModel
  \/ kernel # NullKernel /\ model = NullModel
  \/ kernel # NullKernel /\ model # NullModel /\ kernel.id # model.id

\* update(model) past its guard: the assignments, the kernel swap and the
\* signals.
ApplyUpdate(s, model) ==
  IF ModelThrows(s) THEN Ret(s, <<>>, TRUE)
  ELSE
    LET oldModel == Model(s)
        s1 == [s EXCEPT !.path = model.path, !.name = model.name,
                        !.type = model.type]
        changed == KernelIdentityChanged(s1.kernel, model.kernel)
        oldValue == IF s1.kernel # NullKernel
                      THEN KernelDispose(s1.kernel) ELSE s1.kernel
        s2 == IF changed THEN setupKernel(s1, model.kernel) ELSE s1
        kev == IF changed
                 THEN <<Ev("kernelChanged", "kernel", oldValue, s2.kernel)>>
                 ELSE <<>>
    IN  Ret(s2, kev \o HandleModelChange(oldModel, s2), FALSE)

\* update() without the race guard.
UpdateConnUnguarded(s, model) == ApplyUpdate(s, model)

\* update(model)
UpdateConn(s, model) ==
  IF s.updating THEN Ret(s, <<>>, FALSE) ELSE ApplyUpdate(s, model)

\* dispose() without the isDisposed test.
DisposeConnUnguarded(s) ==
  LET s1 == [s EXCEPT !.isDisposed = TRUE]
      ev == <<Ev("disposed", "", NullKernel, NullKernel)>>
  IN  IF s1.kernel = NullKernel
        THEN Ret(s1, ev, TRUE)
        ELSE Ret([s1 EXCEPT !.kernel = KernelDispose(@), !.cleared = TRUE],
                 ev, FALSE)

\* dispose()
DisposeConn(s) ==
  IF s.isDisposed THEN Ret(s, <<>>, FALSE)
  ELSE
    LET s1 == [s EXCEPT !.isDisposed = TRUE]
        ev == <<Ev("disposed", "", NullKernel, NullKernel)>>
    IN  IF s1.kernel = NullKernel
          THEN Ret(s1, ev, TRUE)
          ELSE Ret([s1 EXCEPT !.kernel = KernelDispose(@), !.cleared = TRUE],
                   ev, FALSE)

\* _patch(body), up to its await: the flag is raised before the request.
PatchStart(s) == [s EXCEPT !.updating = TRUE]

\* A validated model never has the empty id: NoRecord stands for "no model",
\* the request having thrown.
NoRecord ==
  [id |-> "", path |-> "", type |-> "", name |-> "", kernel |-> NullModel]

\* _patch() lowering the flag after a successful request only.
PatchFinallyOnSuccess(s, model) ==
  IF model = NoRecord THEN s ELSE [s EXCEPT !.updating = FALSE]

\* _patch(body), after its await: the finally block lowers the flag on both
\* exits.  The model the request returned is handed back to the caller and
\* is not applied to the object.
PatchFinally(s, model) == [s EXCEPT !.updating = FALSE]

\* Private.createSession(model, settings)
createSession(model, ep) ==
  Construct([path |-> model.path, type |-> model.type, name |-> model.name,
             ep |-> ep],
            model.id, model.kernel)

(***************************************************************************)
(* State.                                                                  *)
(***************************************************************************)
VARIABLES
  conns,      \* slot -> the SessionConnection constructed in it, or NoConn
  running,    \* Private.runningSessions: endpoint -> sequence of slots
  pending,    \* slot -> issuing method -> number of its PATCHes in flight
  starts,     \* endpoint -> number of startSession requests in flight
  emitted,    \* the signals emitted by the last step, in order
  result,     \* what the last step returned to its caller
  shut        \* the shutdownAll call in progress and its requests

vars == <<conns, running, pending, starts, emitted, result, shut>>

PatchOps == {"setPath", "setName", "setType", "changeKernel"}

\* op: the method; phase: "call" for the synchronous part of a method up to
\* its await, "settled" when its promise settles or a synchronous method
\* returns; net: the request the step issued; value: the kernel handle it
\* returned; via: how a registry operation obtained the connection it
\* returned ("clone" or "create").
ResVia(op, c, phase, outcome, net, value, via) ==
  [op |-> op, conn |-> c, phase |-> phase, outcome |-> outcome, net |-> net,
   value |-> value, via |-> via]

Res(op, c, phase, outcome, net, value) ==
  ResVia(op, c, phase, outcome, net, value, "")

\* The signals of one object, tagged with its slot.
Tag(c, events) ==
  [i \in 1..Len(events) |->
     [conn |-> c, sig |-> events[i].sig, arg |-> events[i].arg,
      oldValue |-> events[i].oldValue, newValue |-> events[i].newValue]]

Live(c) == conns[c].live

Outstanding(c) ==
  pending[c]["setPath"] + pending[c]["setName"] + pending[c]["setType"]
    + pending[c]["changeKernel"]

NoPending == [c \in Slots |-> [k \in PatchOps |-> 0]]

\* A DELETE request of shutdownAll: not issued, in flight, or answered.
NoRequest == [state |-> "none", status |-> 0]
PendingRequest == [state |-> "pending", status |-> 0]
Answered(status) == [state |-> "settled", status |-> status]

\* No shutdownAll call has been made: no list, no request.
NoShutdownAll ==
  [phase |-> "idle", ep |-> "A", listed |-> {},
   reqs |-> [id \in Ids |-> NoRequest]]

(***************************************************************************)
(* Operations on one connection.                                           *)
(***************************************************************************)

\* session.update(model), called directly.
Update(c, model) ==
  /\ Live(c)
  /\ LET ret == UpdateConn(conns[c], model)
     IN  /\ conns' = [conns EXCEPT ![c] = ret.conn]
         /\ emitted' = Tag(c, ret.events)
         /\ result' = Res("update", c, "settled",
                          IF ret.thrown THEN "typeError" ELSE "ok",
                          "none", NullKernel)
  /\ UNCHANGED <<running, pending, starts, shut>>

\* session.dispose()
Dispose(c) ==
  /\ Live(c)
  /\ conns[c].kernel.disposals < MaxDisposals
  /\ LET ret == DisposeConn(conns[c])
     IN  /\ conns' = [conns EXCEPT ![c] = ret.conn]
         /\ emitted' = Tag(c, ret.events)
         /\ result' = Res("dispose", c, "settled",
                          IF ret.thrown THEN "typeError" ELSE "ok",
                          "none", NullKernel)
  /\ UNCHANGED <<running, pending, starts, shut>>

\* The local write of the optimistic setter below.
WriteField(s, op, value) ==
  IF op = "setPath" THEN [s EXCEPT !.path = value]
  ELSE IF op = "setName" THEN [s EXCEPT !.name = value]
  ELSE [s EXCEPT !.type = value]

\* A setter that writes the field locally before the server confirms it.
SetFieldOptimistic(c, op, value) ==
  /\ Live(c)
  /\ op \in {"setPath", "setName", "setType"}
  /\ emitted' = <<>>
  /\ IF conns[c].isDisposed
       THEN /\ result' = Res(op, c, "settled", "disposedError", "none",
                             NullKernel)
            /\ UNCHANGED <<conns, pending>>
       ELSE /\ Outstanding(c) < MaxPatches
            /\ conns' = [conns EXCEPT
                           ![c] = PatchStart(WriteField(@, op, value))]
            /\ pending' = [pending EXCEPT ![c][op] = @ + 1]
            /\ result' = Res(op, c, "call", "pending", "PATCH", NullKernel)
  /\ UNCHANGED <<running, starts, shut>>

\* setPath(path), setName(name), setType(type) up to the await in _patch.
\* The value travels in the request body only.
SetField(c, op, value) ==
  /\ Live(c)
  /\ op \in {"setPath", "setName", "setType"}
  /\ emitted' = <<>>
  /\ IF conns[c].isDisposed
       THEN /\ result' = Res(op, c, "settled", "disposedError", "none",
                             NullKernel)
            /\ UNCHANGED <<conns, pending>>
       ELSE /\ Outstanding(c) < MaxPatches
            /\ conns' = [conns EXCEPT ![c] = PatchStart(@)]
            /\ pending' = [pending EXCEPT ![c][op] = @ + 1]
            /\ result' = Res(op, c, "call", "pending", "PATCH", NullKernel)
  /\ UNCHANGED <<running, starts, shut>>

\* changeKernel(options) up to the await in _patch.
ChangeKernel(c) ==
  /\ Live(c)
  /\ emitted' = <<>>
  /\ IF conns[c].isDisposed
       THEN /\ result' = Res("changeKernel", c, "settled", "disposedError",
                             "none", NullKernel)
            /\ UNCHANGED <<conns, pending>>
       ELSE IF conns[c].kernel = NullKernel
       THEN /\ result' = Res("changeKernel", c, "settled", "typeError",
                             "none", NullKernel)
            /\ UNCHANGED <<conns, pending>>
       ELSE /\ Outstanding(c) < MaxPatches
            /\ conns[c].kernel.disposals < MaxDisposals
            /\ conns' = [conns EXCEPT
                           ![c] = PatchStart([@ EXCEPT
                                    !.kernel = KernelDispose(@)])]
            /\ pending' = [pending EXCEPT ![c]["changeKernel"] = @ + 1]
            /\ result' = Res("changeKernel", c, "call", "pending", "PATCH",
                             NullKernel)
  /\ UNCHANGED <<running, starts, shut>>

\* restapi.updateSession answered 200 with a valid model: _patch returns it,
\* and the method that awaited it resolves (changeKernel with this.kernel).
PatchSuccess(c, op, model) ==
  /\ Live(c)
  /\ pending[c][op] > 0
  /\ model.id = conns[c].id
  /\ conns' = [conns EXCEPT ![c] = PatchFinally(@, model)]
  /\ pending' = [pending EXCEPT ![c][op] = @ - 1]
  /\ emitted' = <<>>
  /\ result' = Res(op, c, "settled", "ok", "none",
                   IF op = "changeKernel" THEN conns'[c].kernel
                                          ELSE NullKernel)
  /\ UNCHANGED <<running, starts, shut>>

\* restapi.updateSession threw (network failure, status other than 200, or
\* an invalid model): the error passes through _patch and the method.
PatchFailure(c, op) ==
  /\ Live(c)
  /\ pending[c][op] > 0
  /\ conns' = [conns EXCEPT ![c] = PatchFinally(@, NoRecord)]
  /\ pending' = [pending EXCEPT ![c][op] = @ - 1]
  /\ emitted' = <<>>
  /\ result' = Res(op, c, "settled", "transportError", "none",
                   NullKernel)
  /\ UNCHANGED <<running, starts, shut>>

\* shutdown() without the isDisposed test, as the static shutdown(id) is.
ShutdownUnchecked(c, status) ==
  /\ Live(c)
  /\ emitted' = <<>>
  /\ result' = Res("shutdown", c, "settled",
                   IF status \in {204, 404} THEN "ok" ELSE "transportError",
                   "DELETE", NullKernel)
  /\ UNCHANGED <<conns, running, pending, starts, shut>>

\* shutdown(): restapi.shutdownSession tolerates 404 and throws on every
\* status other than 204.  Nothing of the object is touched.
Shutdown(c, status) ==
  /\ Live(c)
  /\ emitted' = <<>>
  /\ result' =
       IF conns[c].isDisposed
         THEN Res("shutdown", c, "settled", "disposedError", "none",
                  NullKernel)
         ELSE Res("shutdown", c, "settled",
                  IF status \in {204, 404} THEN "ok" ELSE "transportError",
                  "DELETE", NullKernel)
  /\ UNCHANGED <<conns, running, pending, starts, shut>>

(***************************************************************************)
(* The life of one connection: slot 1 holds a connection constructed from  *)
(* a record of the server; the registry tracks nothing.                    *)
(***************************************************************************)
Init ==
  /\ \E model \in Records :
       /\ model.id = "s1"
       /\ conns = [c \in Slots |->
                    IF c = 1 THEN createSession(model, "A") ELSE NoConn]
  /\ running = [e \in Eps |-> <<>>]
  /\ pending = NoPending
  /\ starts = [e \in Eps |-> 0]
  /\ emitted = <<>>
  /\ result = Res("init", 1, "settled", "ok", "none", NullKernel)
  /\ shut = NoShutdownAll

Next ==
  \/ \E model \in Records : model.id = conns[1].id /\ Update(1, model)
  \/ Dispose(1)
  \/ \E value \in Paths : SetField(1, "setPath", value)
  \/ \E value \in Names : SetField(1, "setName", value)
  \/ \E value \in Types : SetField(1, "setType", value)
  \/ ChangeKernel(1)
  \/ \E op \in PatchOps, model \in Records : PatchSuccess(1, op, model)
  \/ \E op \in PatchOps : PatchFailure(1, op)
  \/ \E status \in {204, 404, 410, 500} : Shutdown(1, status)

Spec == Init /\ [][Next]_vars

(***************************************************************************)
(* The registry: Private.runningSessions and the functions that read it.   *)
(***************************************************************************)

HasFreeSlot == \E c \in Slots : ~Live(c)

\* The slot a newly constructed object takes.
NewSlot == CHOOSE c \in Slots : ~Live(c) /\ \A d \in Slots : d < c => Live(d)

\* find(seq, pred): the index of the first element satisfying pred, or 0.
FirstIndex(S) == IF S = {} THEN 0 ELSE CHOOSE i \in S : \A j \in S : i <= j

\* find(running, value => value.id === id) over the endpoint's sequence.
FindRunning(ep, id) ==
  LET i == FirstIndex({k \in 1..Len(running[ep]) :
                         conns[running[ep][k]].id = id})
  IN  IF i = 0 THEN 0 ELSE running[ep][i]

\* Private.connectTo(model, settings)
ConnectTo(model, ep) ==
  /\ HasFreeSlot
  /\ emitted' = <<>>
  /\ LET session == FindRunning(ep, model.id)
     IN  IF session # 0
           THEN IF CloneThrows(conns[session])
                  THEN /\ result' = ResVia("connectTo", session, "settled",
                                           "typeError", "none", NullKernel,
                                           "clone")
                       /\ UNCHANGED conns
                  ELSE /\ conns' = [conns EXCEPT
                                      ![NewSlot] = Clone(conns[session])]
                       /\ result' = ResVia("connectTo", NewSlot, "settled",
                                           "ok", "none", NullKernel, "clone")
           ELSE /\ conns' = [conns EXCEPT
                               ![NewSlot] = createSession(model, ep)]
                /\ result' = ResVia("connectTo", NewSlot, "settled", "ok",
                                    "none", NullKernel, "create")
  /\ UNCHANGED <<running, pending, starts, shut>>

\* restapi.getSessionModel(id, settings): every status other than 200 is
\* thrown as a ResponseError.
getSessionModel(status) == IF status = 200 THEN "ok" ELSE "transportError"

\* Private.findById(id, settings): the model of the first tracked connection
\* with the id, read through its getter; otherwise the record the server
\* returns, the catch handler replacing whatever getSessionModel throws.
FindById(id, ep, status) ==
  /\ emitted' = <<>>
  /\ LET session == FindRunning(ep, id)
     IN  IF session # 0
           THEN result' = Res("findById", session, "settled",
                              IF ModelThrows(conns[session])
                                THEN "typeError" ELSE "ok",
                              "none", NullKernel)
           ELSE result' = Res("findById", 0, "settled",
                              IF getSessionModel(status) = "ok"
                                THEN "ok" ELSE "notFoundError",
                              "GET", NullKernel)
  /\ UNCHANGED <<conns, running, pending, starts, shut>>

\* Private.startNew(options) up to the await on restapi.startSession.
\* "undefined" stands for an options object without a path.
StartNewCall(path, ep) ==
  /\ emitted' = <<>>
  /\ IF path = "undefined"
       THEN /\ result' = Res("startNew", 0, "settled", "preconditionError",
                             "none", NullKernel)
            /\ UNCHANGED starts
       ELSE /\ starts[ep] < MaxStarts
            /\ starts' = [starts EXCEPT ![ep] = @ + 1]
            /\ result' = Res("startNew", 0, "call", "pending", "POST",
                             NullKernel)
  /\ UNCHANGED <<conns, running, pending, shut>>

\* startNew() entering every connection it constructs in the registry.
StartNewResolveTracking(model, ep) ==
  /\ starts[ep] > 0
  /\ HasFreeSlot
  /\ starts' = [starts EXCEPT ![ep] = @ - 1]
  /\ conns' = [conns EXCEPT ![NewSlot] = createSession(model, ep)]
  /\ running' = [running EXCEPT ![ep] = Append(@, NewSlot)]
  /\ emitted' = <<>>
  /\ result' = ResVia("startNew", NewSlot, "settled", "ok", "none",
                      NullKernel, "create")
  /\ UNCHANGED <<pending, shut>>

\* restapi.startSession answered 201 with a valid model.
StartNewResolve(model, ep) ==
  /\ starts[ep] > 0
  /\ HasFreeSlot
  /\ starts' = [starts EXCEPT ![ep] = @ - 1]
  /\ conns' = [conns EXCEPT ![NewSlot] = createSession(model, ep)]
  /\ emitted' = <<>>
  /\ result' = ResVia("startNew", NewSlot, "settled", "ok", "none",
                      NullKernel, "create")
  /\ UNCHANGED <<running, pending, shut>>

\* restapi.startSession threw.
StartNewFail(ep) ==
  /\ starts[ep] > 0
  /\ starts' = [starts EXCEPT ![ep] = @ - 1]
  /\ emitted' = <<>>
  /\ result' = Res("startNew", 0, "settled", "transportError", "none",
                   NullKernel)
  /\ UNCHANGED <<conns, running, pending, shut>>

\* The state a loop over the tracked connections threads through.
Loop(cs, events, thrown) == [conns |-> cs, events |-> events, thrown |-> thrown]

\* One iteration of the loop of updateFromServer.
ServerUpdateOne(s, model) ==
  IF s.id = model.id THEN UpdateConn(s, model) ELSE Ret(s, <<>>, FALSE)

\* One iteration of the loop of updateRunningSessions: find() calls
\* update on the first record with the session's id; a session no record
\* matches is disposed unless it already is.
ReconcileOne(s, sessions) ==
  LET j == FirstIndex({k \in 1..Len(sessions) : sessions[k].id = s.id})
  IN  IF j # 0 THEN UpdateConn(s, sessions[j])
      ELSE IF s.isDisposed # TRUE THEN DisposeConn(s)
      ELSE Ret(s, <<>>, FALSE)

\* each(running.slice(), ...): in order over the snapshot; an exception
\* leaves the loop and the function.
RECURSIVE ServerUpdateFrom(_, _, _, _)
ServerUpdateFrom(snapshot, i, model, st) ==
  IF i > Len(snapshot) \/ st.thrown THEN st
  ELSE LET c == snapshot[i]
           ret == ServerUpdateOne(st.conns[c], model)
       IN  ServerUpdateFrom(snapshot, i + 1, model,
             Loop([st.conns EXCEPT ![c] = ret.conn],
                  st.events \o Tag(c, ret.events), ret.thrown))

RECURSIVE ReconcileFrom(_, _, _, _)
ReconcileFrom(snapshot, i, sessions, st) ==
  IF i > Len(snapshot) \/ st.thrown THEN st
  ELSE LET c == snapshot[i]
           ret == ReconcileOne(st.conns[c], sessions)
       IN  ReconcileFrom(snapshot, i + 1, sessions,
             Loop([st.conns EXCEPT ![c] = ret.conn],
                  st.events \o Tag(c, ret.events), ret.thrown))

\* Private.updateFromServer(model, baseUrl)
UpdateFromServer(model, ep) ==
  /\ LET st == ServerUpdateFrom(running[ep], 1, model,
                                Loop(conns, <<>>, FALSE))
     IN  /\ conns' = st.conns
         /\ emitted' = st.events
         /\ result' = Res("updateFromServer", 0, "settled",
                          IF st.thrown THEN "typeError" ELSE "ok", "none",
                          NullKernel)
  /\ UNCHANGED <<running, pending, starts, shut>>

\* Private.updateRunningSessions(sessions, baseUrl)
UpdateRunningSessions(sessions, ep) ==
  /\ LET st == ReconcileFrom(running[ep], 1, sessions,
                             Loop(conns, <<>>, FALSE))
     IN  /\ conns' = st.conns
         /\ emitted' = st.events
         /\ result' = Res("updateRunningSessions", 0, "settled",
                          IF st.thrown THEN "typeError" ELSE "ok", "none",
                          NullKernel)
  /\ UNCHANGED <<running, pending, starts, shut>>

(***************************************************************************)
(* The registry specification.  The declaration of runningSessions and the *)
(* code that fills it are not part of the sources: the connections tracked *)
(* at the start are those the registry's description allows, live          *)
(* connections created from server records, at most one per session id and *)
(* endpoint, each tracked under its own endpoint.  The remaining slots are *)
(* taken by the connections connectTo and startNew construct.              *)
(***************************************************************************)
AllSlots == [i \in 1..MaxConns |-> i]

\* The session lists handed to updateRunningSessions: what listRunning
\* returns, one record per session of the server.
Lists ==
  {l \in UNION {[1..n -> RegRecords] : n \in 0..MaxList} :
     \A i, j \in 1..Len(l) : i # j => l[i].id # l[j].id}

InitRegistry ==
  /\ \E n \in 0..MaxConns : \E f \in [1..n -> RegRecords \X Eps] :
       /\ \A i, j \in 1..n :
            i # j => <<f[i][1].id, f[i][2]>> # <<f[j][1].id, f[j][2]>>
       /\ conns = [c \in Slots |->
                     IF c <= n THEN createSession(f[c][1], f[c][2])
                               ELSE NoConn]
       /\ running = [e \in Eps |->
                       SelectSeq(AllSlots,
                                 LAMBDA c : c <= n /\ f[c][2] = e)]
  /\ pending = NoPending
  /\ starts = [e \in Eps |-> 0]
  /\ emitted = <<>>
  /\ result = Res("init", 0, "settled", "ok", "none", NullKernel)
  /\ shut = NoShutdownAll

NextRegistry ==
  \/ \E model \in RegRecords, ep \in Eps : ConnectTo(model, ep)
  \/ \E path \in Paths \cup {"undefined", ""}, ep \in Eps :
       StartNewCall(path, ep)
  \/ \E model \in RegRecords, ep \in Eps : StartNewResolve(model, ep)
  \/ \E ep \in Eps : StartNewFail(ep)
  \/ \E id \in Ids, ep \in Eps, status \in {200, 404, 500} :
       FindById(id, ep, status)
  \/ \E c \in Slots : Dispose(c)
  \/ \E model \in RegRecords, ep \in Eps : UpdateFromServer(model, ep)
  \/ \E sessions \in Lists, ep \in Eps : UpdateRunningSessions(sessions, ep)

SpecRegistry == InitRegistry /\ [][NextRegistry]_vars

(***************************************************************************)
(* Properties of one connection (specification Spec).                      *)
(***************************************************************************)

\* The signals of a step that report a change of the session.
ChangeSignals(events) ==
  {i \in 1..Len(events) : events[i].sig \in {"kernelChanged", "propertyChanged"}}

\* C1: update(r) called while the updating flag is true leaves path, type,
\* name and the owned kernel handle as they were and emits neither a
\* kernel-changed nor a property-changed signal.
C1_UpdateWhileUpdatingIsNoOp ==
  [][\A c \in Slots :
       (result'.op = "update" /\ result'.conn = c /\ conns[c].updating)
         => /\ conns'[c].path = conns[c].path
            /\ conns'[c].type = conns[c].type
            /\ conns'[c].name = conns[c].name
            /\ conns'[c].kernel = conns[c].kernel
            /\ ChangeSignals(emitted') = {}]_vars

\* C1 witness: update has just returned on a connection whose PATCH is
\* still in flight.
C1_Witness ==
  \E c \in Slots :
    /\ result.op = "update" /\ result.conn = c
    /\ conns[c].updating /\ Outstanding(c) > 0

\* C2: when the PATCH of setPath, setName, setType or changeKernel succeeds
\* with record r, the connection's path, type, name and kernel identity are
\* those of r once the method's promise resolves.
C2_PatchedRecordIsApplied ==
  [][\A c \in Slots, op \in PatchOps, model \in Records :
       (/\ result'.op = op /\ result'.conn = c /\ result'.outcome = "ok"
        /\ PatchSuccess(c, op, model))
         => /\ conns'[c].path = model.path
            /\ conns'[c].type = model.type
            /\ conns'[c].name = model.name
            /\ conns'[c].kernel.id = model.kernel.id]_vars

\* C3: every update(record) with no PATCH in flight completes, and leaves
\* the connection's path, type and name equal to the record's, whether or
\* not the connection or the record has a kernel.
C3_UpdateAppliesRecord ==
  [][\A c \in Slots, model \in Records :
       (/\ result'.op = "update" /\ result'.conn = c
        /\ ~conns[c].updating /\ Update(c, model))
         => /\ result'.outcome = "ok"
            /\ conns'[c].path = model.path
            /\ conns'[c].type = model.type
            /\ conns'[c].name = model.name]_vars

\* C4: a PATCH raises updating when it starts; when it settles, by success
\* or by failure, updating is false as control returns to the caller; a
\* connection with no PATCH outstanding never has updating true.
C4_UpdatingRaisedAndCleared ==
  /\ [](\A c \in Slots : Outstanding(c) = 0 => ~conns[c].updating)
  /\ [][/\ (result'.op \in PatchOps /\ result'.phase = "call")
             => conns'[result'.conn].updating
        /\ (/\ result'.op \in PatchOps /\ result'.phase = "settled"
            /\ result'.outcome \in {"ok", "transportError"})
             => ~conns'[result'.conn].updating]_vars

\* C4 witness: a PATCH has failed and its connection is idle again.
C4_Witness ==
  /\ result.op \in PatchOps /\ result.phase = "settled"
  /\ result.outcome = "transportError"
  /\ Outstanding(result.conn) = 0 /\ ~conns[result.conn].updating

\* C5: a failing PATCH of setPath, setName or setType hands the error to the
\* caller; neither the call nor the failure changes path, type, name,
\* kernel or isDisposed, and neither emits a signal.
C5_FailedPatchLeavesState ==
  [][\A c \in Slots :
       (/\ result'.conn = c
        /\ result'.op \in {"setPath", "setName", "setType"}
        /\ \/ \E value \in Paths \cup Names \cup Types :
                SetField(c, result'.op, value)
           \/ PatchFailure(c, result'.op))
         => /\ conns'[c].path = conns[c].path
            /\ conns'[c].type = conns[c].type
            /\ conns'[c].name = conns[c].name
            /\ conns'[c].kernel = conns[c].kernel
            /\ conns'[c].isDisposed = conns[c].isDisposed
            /\ emitted' = <<>>
            /\ PatchFailure(c, result'.op)
                 => result'.outcome = "transportError"]_vars

\* C5 witness: the PATCH of a setter has failed on a connection that has a
\* kernel.
C5_Witness ==
  /\ result.op \in {"setPath", "setName", "setType"}
  /\ result.phase = "settled" /\ result.outcome = "transportError"
  /\ conns[result.conn].kernel # NullKernel

\* C6: on a disposed connection setPath, setName, setType, changeKernel and
\* shutdown fail with the disposed-use error, issue no request, do not
\* raise updating and leave the connection as it was.
C6_DisposedUseFails ==
  [][\A c \in Slots :
       (/\ conns[c].isDisposed /\ result'.conn = c
        /\ result'.op \in PatchOps \cup {"shutdown"}
        /\ \/ \E value \in Paths \cup Names \cup Types :
                SetField(c, result'.op, value)
           \/ ChangeKernel(c)
           \/ \E status \in {204, 404, 410, 500} : Shutdown(c, status))
         => /\ result'.outcome = "disposedError"
            /\ result'.net = "none"
            /\ conns' = conns
            /\ pending' = pending]_vars

\* C6 witness: shutdown has just been refused on a disposed connection.
C6_Witness ==
  /\ result.op = "shutdown" /\ result.outcome = "disposedError"
  /\ conns[result.conn].isDisposed

(***************************************************************************)
(* Properties of the registry (specification SpecRegistry).                *)
(***************************************************************************)

\* The slots tracked at an endpoint.
Tracked(ep) == {running[ep][i] : i \in 1..Len(running[ep])}

HasRecord(sessions, id) == \E k \in 1..Len(sessions) : sessions[k].id = id

FirstRecord(sessions, id) ==
  sessions[FirstIndex({k \in 1..Len(sessions) : sessions[k].id = id})]

\* C7: updateRunningSessions(list, endpoint) disposes every tracked,
\* undisposed connection of the endpoint the list has no record for, with
\* or without a kernel; calls update(record) on every tracked connection the
\* list has a record for, without disposing it; and leaves the connections
\* of other endpoints untouched.
C7_ReconcileDisposesOrUpdates ==
  [][\A ep \in Eps, sessions \in Lists :
       (result'.op = "updateRunningSessions"
          /\ UpdateRunningSessions(sessions, ep))
         => \A c \in Slots :
              /\ (c \in Tracked(ep) /\ ~HasRecord(sessions, conns[c].id)
                    /\ ~conns[c].isDisposed)
                   => conns'[c].isDisposed
              /\ (c \in Tracked(ep) /\ HasRecord(sessions, conns[c].id))
                   => /\ conns'[c].isDisposed = conns[c].isDisposed
                      /\ conns'[c] =
                           UpdateConn(conns[c],
                                      FirstRecord(sessions, conns[c].id)).conn
              /\ c \notin Tracked(ep) => conns'[c] = conns[c]]_vars

\* C8: no disposed connection is in the tracked set of an endpoint.
C8_NoDisposedConnectionTracked ==
  \A ep \in Eps : \A c \in Tracked(ep) : ~conns[c].isDisposed

\* C9: the connection connectTo constructs for an id not tracked at the
\* endpoint, and the connection startNew returns, is added to the tracked
\* set of its endpoint.
C9_CreatedConnectionIsTracked ==
  (/\ result.op \in {"connectTo", "startNew"}
   /\ result.outcome = "ok" /\ result.via = "create")
    => result.conn \in Tracked(conns[result.conn].ep)

KernelSignals(events) ==
  {i \in 1..Len(events) : events[i].sig = "kernelChanged"}

\* C11: an update(r) made while updating is false emits exactly one
\* kernelChanged signal when the kernel identity changes (null to a kernel,
\* a kernel to null, or one kernel id to another), with the handle owned
\* before as oldValue and the handle owned afterwards, established for r's
\* kernel, as newValue; when the identity is unchanged it emits none and
\* the owned handle stays.
C11_KernelChangeEmitsOnce ==
  [][\A c \in Slots, model \in Records :
       (/\ result'.op = "update" /\ result'.conn = c
        /\ ~conns[c].updating /\ Update(c, model))
         => IF KernelIdentityChanged(conns[c].kernel, model.kernel)
              THEN /\ Cardinality(KernelSignals(emitted')) = 1
                   /\ \A i \in KernelSignals(emitted') :
                        /\ emitted'[i].oldValue.id = conns[c].kernel.id
                        /\ emitted'[i].newValue = conns'[c].kernel
                   /\ conns'[c].kernel.id = model.kernel.id
                   /\ conns'[c].kernel.disposals = 0
              ELSE /\ KernelSignals(emitted') = {}
                   /\ conns'[c].kernel = conns[c].kernel]_vars

\* The fields of a record that differ from those of a connection, in the
\* order name, type, path.
ChangedFields(s, model) ==
  (IF model.name # s.name THEN <<"name">> ELSE <<>>)
  \o (IF model.type # s.type THEN <<"type">> ELSE <<>>)
  \o (IF model.path # s.path THEN <<"path">> ELSE <<>>)

\* The field named by each propertyChanged signal of a step, in order.
PropertySignals(events) ==
  LET ps == SelectSeq(events, LAMBDA e : e.sig = "propertyChanged")
  IN  [i \in 1..Len(ps) |-> ps[i].arg]

\* C12: an update(r) made while updating is false emits one propertyChanged
\* signal for each of name, type and path whose value in r differs from the
\* value held before the call and none for a field that is equal, in the
\* order name, type, path and after any kernelChanged signal of the call.
C12_PropertySignalsInOrder ==
  [][\A c \in Slots, model \in Records :
       (/\ result'.op = "update" /\ result'.conn = c
        /\ ~conns[c].updating /\ Update(c, model))
         => /\ PropertySignals(emitted') = ChangedFields(conns[c], model)
            /\ \A i \in KernelSignals(emitted'), j \in 1..Len(emitted') :
                 emitted'[j].sig = "propertyChanged" => i < j]_vars

(***************************************************************************)
(* A connection and its clones (specification SpecClone): slot 1 holds a   *)
(* connection constructed from a record of the server, which is updated,   *)
(* renamed, read, cloned and disposed; its clones take the slots after it. *)
(***************************************************************************)

\* The records of the clone specification: one session, with or without a
\* kernel.
CloneRecords ==
  {r \in Records : r.id = "s1" /\ r.name = "" /\ r.kernel.id # "k2"}

\* session.clone()
CloneOp(c) ==
  /\ Live(c)
  /\ HasFreeSlot
  /\ emitted' = <<>>
  /\ IF CloneThrows(conns[c])
       THEN /\ result' = ResVia("clone", c, "settled", "typeError", "none",
                                NullKernel, "clone")
            /\ UNCHANGED conns
       ELSE /\ conns' = [conns EXCEPT ![NewSlot] = Clone(conns[c])]
            /\ result' = ResVia("clone", NewSlot, "settled", "ok", "none",
                                NullKernel, "clone")
  /\ UNCHANGED <<running, pending, starts, shut>>

\* Reading session.model: value carries the kernel field of the snapshot.
ReadModel(c) ==
  /\ Live(c)
  /\ emitted' = <<>>
  /\ result' =
       IF ModelThrows(conns[c])
         THEN Res("model", c, "settled", "typeError", "none", NullKernel)
         ELSE Res("model", c, "settled", "ok", "none",
                  [id |-> Model(conns[c]).kernel.id,
                   name |-> Model(conns[c]).kernel.name, disposals |-> 0])
  /\ UNCHANGED <<conns, running, pending, starts, shut>>

InitClone ==
  /\ \E model \in CloneRecords :
       conns = [c \in Slots |->
                  IF c = 1 THEN createSession(model, "A") ELSE NoConn]
  /\ running = [e \in Eps |-> <<>>]
  /\ pending = NoPending
  /\ starts = [e \in Eps |-> 0]
  /\ emitted = <<>>
  /\ result = Res("init", 1, "settled", "ok", "none", NullKernel)
  /\ shut = NoShutdownAll

NextClone ==
  \/ \E c \in Slots : CloneOp(c)
  \/ \E c \in Slots : ReadModel(c)
  \/ \E c \in Slots : Dispose(c)
  \/ \E model \in CloneRecords : Update(1, model)
  \/ \E value \in Paths : SetField(1, "setPath", value)
  \/ PatchFailure(1, "setPath")

SpecClone == InitClone /\ [][NextClone]_vars

\* C13: c.clone() returns a connection with the id, path, type, name and
\* kernel id c has at that moment, with a kernel handle of its own that is
\* not disposed, isDisposed false and updating false, and leaves c as it
\* was; disposing a connection changes nothing of any other connection, its
\* clones and its original included.
C13_CloneIsIndependent ==
  [][\A c \in Slots :
       /\ (/\ result'.op = "clone" /\ result'.outcome = "ok" /\ CloneOp(c))
            => /\ conns'[result'.conn].id = conns[c].id
               /\ conns'[result'.conn].path = conns[c].path
               /\ conns'[result'.conn].type = conns[c].type
               /\ conns'[result'.conn].name = conns[c].name
               /\ conns'[result'.conn].kernel.id = conns[c].kernel.id
               /\ conns'[result'.conn].kernel.disposals = 0
               /\ ~conns'[result'.conn].isDisposed
               /\ ~conns'[result'.conn].updating
               /\ conns'[c] = conns[c]
       /\ (result'.op = "dispose" /\ result'.conn = c)
            => \A d \in Slots \ {c} : conns'[d] = conns[d]]_vars

\* The disposed signals among the signals of a step.
DisposedSignals(events) ==
  {i \in 1..Len(events) : events[i].sig = "disposed"}

\* C14: the first dispose() of a connection sets isDisposed and emits the
\* disposed signal once; a dispose() of a connection that is disposed
\* emits nothing and leaves every field and the kernel handle as they were;
\* no step takes isDisposed from true back to false.
C14_DisposeIsIdempotent ==
  [][\A c \in Slots :
       /\ conns[c].isDisposed => conns'[c].isDisposed
       /\ (result'.op = "dispose" /\ result'.conn = c)
            => IF conns[c].isDisposed
                 THEN conns'[c] = conns[c] /\ emitted' = <<>>
                 ELSE /\ conns'[c].isDisposed
                      /\ Cardinality(DisposedSignals(emitted')) = 1]_vars

\* C14 witness: dispose() has returned without a signal on a connection
\* that an earlier dispose() had disposed together with its kernel handle.
C14_Witness ==
  \E c \in Slots :
    /\ result.op = "dispose" /\ result.conn = c /\ emitted = <<>>
    /\ conns[c].isDisposed /\ conns[c].kernel.disposals = 1

\* C15: every kernel handle of a connection is disposed exactly once: the
\* handle a connection owns has been disposed at most once, and exactly
\* once when the connection is disposed; the handle a kernelChanged signal
\* reports as replaced has been disposed exactly once.
C15_HandleDisposedOnce ==
  /\ \A c \in Slots :
       (conns[c].live /\ conns[c].kernel # NullKernel)
         => /\ conns[c].kernel.disposals <= 1
            /\ conns[c].isDisposed => conns[c].kernel.disposals = 1
  /\ \A i \in KernelSignals(emitted) :
       emitted[i].oldValue # NullKernel => emitted[i].oldValue.disposals = 1

\* C16: when the PATCH of changeKernel() succeeds with record r, the promise
\* resolves to the connection's current kernel handle, a handle established
\* for r's kernel that has not been disposed, and one kernelChanged signal
\* is emitted for the change.
C16_ChangeKernelResolvesToNewHandle ==
  [][\A c \in Slots, model \in Records :
       (/\ result'.op = "changeKernel" /\ result'.conn = c
        /\ result'.outcome = "ok" /\ PatchSuccess(c, "changeKernel", model))
         => /\ result'.value = conns'[c].kernel
            /\ result'.value.id = model.kernel.id
            /\ result'.value.disposals = 0
            /\ Cardinality(KernelSignals(emitted')) = 1]_vars

(***************************************************************************)
(* Properties of the static functions (specification SpecRegistry).        *)
(***************************************************************************)

\* C17: startNew(options) with no path or with the empty path fails with
\* the precondition error, issues no request and constructs no connection.
C17_StartNewRequiresPath ==
  [][\A path \in {"undefined", ""}, ep \in Eps :
       StartNewCall(path, ep)
         => /\ result'.outcome = "preconditionError"
            /\ result'.net = "none"
            /\ starts' = starts
            /\ conns' = conns]_vars

\* C18: findById for an id that is not tracked resolves with the server's
\* record on status 200, fails with the not-found error on status 404 and
\* fails with the transport's own error on any other status.
C18_FindByIdPropagatesTransportError ==
  [][\A id \in Ids, ep \in Eps, status \in {200, 404, 500} :
       (FindRunning(ep, id) = 0 /\ FindById(id, ep, status))
         => result'.outcome =
              IF status = 200 THEN "ok"
              ELSE IF status = 404 THEN "notFoundError"
              ELSE "transportError"]_vars

(***************************************************************************)
(* Private.shutdownAll (specification SpecShutdownAll).  The function      *)
(* reads no connection and no registry entry: its state is the call, the   *)
(* list the server returned and the DELETE requests in flight.             *)
(***************************************************************************)

\* restapi.shutdownSession(id, settings), on the answer to its DELETE: 404
\* is logged and tolerated, 410 and every status other than 204 are thrown.
shutdownSession(status) ==
  IF status = 404 THEN "ok"
  ELSE IF status = 410 THEN "transportError"
  ELSE IF status # 204 THEN "transportError"
  ELSE "ok"

Fulfilled(req) == req.state = "settled" /\ shutdownSession(req.status) = "ok"
Rejected(req) ==
  req.state = "settled" /\ shutdownSession(req.status) = "transportError"

\* A combinator that resolves with the first request that is fulfilled.
PromiseAny(reqs, listed) ==
  IF \E id \in listed : Fulfilled(reqs[id]) THEN "resolved"
  ELSE IF listed # {} /\ \A id \in listed : Rejected(reqs[id])
    THEN "rejected"
  ELSE IF listed = {} THEN "resolved"
  ELSE "deleting"

\* Promise.all over the promises of the listed sessions: rejected as soon
\* as one of them is rejected, resolved when all of them are fulfilled.
PromiseAll(reqs, listed) ==
  IF \E id \in listed : Rejected(reqs[id]) THEN "rejected"
  ELSE IF \A id \in listed : Fulfilled(reqs[id]) THEN "resolved"
  ELSE "deleting"

\* shutdownAll(settings) up to the await on listRunning.
ShutdownAllCall(ep) ==
  /\ shut.phase \in {"idle", "resolved", "rejected"}
  /\ \A id \in Ids : shut.reqs[id].state # "pending"
  /\ shut' = [phase |-> "listing", ep |-> ep, listed |-> {},
              reqs |-> [id \in Ids |-> NoRequest]]
  /\ emitted' = <<>>
  /\ result' = Res("shutdownAll", 0, "call", "pending", "GET", NullKernel)
  /\ UNCHANGED <<conns, running, pending, starts>>

\* listRunning resolved: running.map issues one shutdownSession per listed
\* session before Promise.all is awaited.
ListRunningResolve(sessions) ==
  /\ shut.phase = "listing"
  /\ LET listed == {sessions[i].id : i \in 1..Len(sessions)}
         reqs == [id \in Ids |->
                    IF id \in listed THEN PendingRequest ELSE NoRequest]
     IN  /\ shut' = [shut EXCEPT !.phase = PromiseAll(reqs, listed),
                                 !.listed = listed, !.reqs = reqs]
         /\ result' =
              IF listed = {}
                THEN Res("shutdownAll", 0, "settled", "ok", "none",
                         NullKernel)
                ELSE Res("shutdownAll", 0, "call", "pending", "DELETE",
                         NullKernel)
  /\ emitted' = <<>>
  /\ UNCHANGED <<conns, running, pending, starts>>

\* listRunning threw: shutdownAll rejects without issuing a DELETE.
ListRunningFail ==
  /\ shut.phase = "listing"
  /\ shut' = [shut EXCEPT !.phase = "rejected"]
  /\ emitted' = <<>>
  /\ result' = Res("shutdownAll", 0, "settled", "transportError", "none",
                   NullKernel)
  /\ UNCHANGED <<conns, running, pending, starts>>

\* The DELETE for one listed session is answered, or fails without an
\* answer (status 0: makeRequest throws); the promise of shutdownAll, while
\* unsettled, follows Promise.all.
ShutdownSettle(id, status) ==
  /\ shut.reqs[id].state = "pending"
  /\ LET reqs == [shut.reqs EXCEPT ![id] = Answered(status)]
         phase == IF shut.phase = "deleting"
                    THEN PromiseAll(reqs, shut.listed) ELSE shut.phase
     IN  /\ shut' = [shut EXCEPT !.phase = phase, !.reqs = reqs]
         /\ result' =
              IF shut.phase = "deleting" /\ phase = "resolved"
                THEN Res("shutdownAll", 0, "settled", "ok", "none",
                         NullKernel)
              ELSE IF shut.phase = "deleting" /\ phase = "rejected"
                THEN Res("shutdownAll", 0, "settled", "transportError",
                         "none", NullKernel)
              ELSE Res("shutdownSession", 0, "settled",
                       shutdownSession(status), "none", NullKernel)
  /\ emitted' = <<>>
  /\ UNCHANGED <<conns, running, pending, starts>>

InitShutdownAll ==
  /\ conns = [c \in Slots |-> NoConn]
  /\ running = [e \in Eps |-> <<>>]
  /\ pending = NoPending
  /\ starts = [e \in Eps |-> 0]
  /\ emitted = <<>>
  /\ result = Res("init", 0, "settled", "ok", "none", NullKernel)
  /\ shut = NoShutdownAll

NextShutdownAll ==
  \/ \E ep \in Eps : ShutdownAllCall(ep)
  \/ \E sessions \in Lists : ListRunningResolve(sessions)
  \/ ListRunningFail
  \/ \E id \in Ids, status \in {204, 404, 410, 500, 0} :
       ShutdownSettle(id, status)

SpecShutdownAll == InitShutdownAll /\ [][NextShutdownAll]_vars

\* C19 as stated: shutdownAll issues one DELETE per listed session, and its
\* promise is settled, resolved or rejected, only when none of those
\* requests is still in flight.
C19_SettlesAfterEveryRequest ==
  /\ shut.phase \in {"deleting", "resolved", "rejected"}
       => \A id \in Ids : id \in shut.listed <=> shut.reqs[id] # NoRequest
  /\ shut.phase \in {"resolved", "rejected"}
       => \A id \in shut.listed : shut.reqs[id] # PendingRequest

\* C19: shutdownAll issues one DELETE per listed session, whatever becomes
\* of the others; its promise resolves only when every one of those
\* requests has been fulfilled, and rejects when the list request fails or
\* as soon as one DELETE fails, other requests possibly still in flight.
C19_ResolvesAfterEveryRequest ==
  /\ shut.phase \in {"deleting", "resolved", "rejected"}
       => \A id \in Ids : id \in shut.listed <=> shut.reqs[id] # NoRequest
  /\ shut.phase = "resolved"
       => \A id \in shut.listed : Fulfilled(shut.reqs[id])
  /\ shut.phase = "rejected"
       => \/ shut.listed = {}
          \/ \E id \in shut.listed : Rejected(shut.reqs[id])
  /\ shut.phase = "deleting"
       => /\ \E id \in shut.listed : shut.reqs[id] = PendingRequest
          /\ \A id \in shut.listed : ~Rejected(shut.reqs[id])

\* C19 witness: the promise of shutdownAll has been rejected by the failure
\* of one DELETE while the DELETE for the other listed session is in flight.
C19_Witness ==
  /\ result.op = "shutdownAll" /\ result.outcome = "transportError"
  /\ shut.phase = "rejected"
  /\ \E id \in shut.listed : Rejected(shut.reqs[id])
  /\ \E id \in shut.listed : shut.reqs[id] = PendingRequest

\* C20: a connection constructed with no kernel record has a null kernel,
\* and while its kernel is null reading model succeeds with a null kernel
\* field, clone() succeeds, and dispose() succeeds, sets isDisposed, emits
\* disposed and detaches the subscribers.
C20_NullKernelIsUsable ==
  [][\A c \in Slots :
       (conns[c].live /\ conns[c].kernel = NullKernel /\ result'.conn = c)
         => /\ result'.op = "model"
                 => result'.outcome = "ok" /\ result'.value = NullKernel
            /\ (result'.op = "clone" /\ CloneOp(c))
                 => result'.outcome = "ok"
            /\ (result'.op = "dispose" /\ ~conns[c].isDisposed)
                 => /\ result'.outcome = "ok"
                    /\ conns'[c].isDisposed
                    /\ DisposedSignals(emitted') # {}
                    /\ conns'[c].cleared]_vars

\* C21: once isDisposed is true, no step changes the path, type or name of
\* the connection, gives it another kernel handle or disposes the one it
\* has again, or emits a kernelChanged or propertyChanged signal for it:
\* neither update(), however it is called, nor the completion of a PATCH
\* started before dispose().
C21_DisposedConnectionIsFrozen ==
  [][\A c \in Slots :
       (conns[c].live /\ conns[c].isDisposed)
         => /\ conns'[c].path = conns[c].path
            /\ conns'[c].type = conns[c].type
            /\ conns'[c].name = conns[c].name
            /\ conns'[c].kernel = conns[c].kernel
            /\ \A i \in ChangeSignals(emitted') : emitted'[i].conn # c]_vars

\* C22: a connection with at least one PATCH outstanding has updating true,
\* also when several PATCH-issuing calls overlap; an update() that returns
\* while a PATCH of its connection is outstanding has therefore been
\* dropped: it completed without a kernelChanged or propertyChanged signal.
C22_UpdatingWhilePatchOutstanding ==
  /\ \A c \in Slots : Outstanding(c) > 0 => conns[c].updating
  /\ \A c \in Slots :
       (result.op = "update" /\ result.conn = c /\ Outstanding(c) > 0)
         => result.outcome = "ok" /\ ChangeSignals(emitted) = {}

====
